---- MODULE Spec2Model ----
(* World History Quiz (src/main.py): the response validator, the question *)
(* generator and the Streamlit session state machine.                    *)
(*                                                                        *)
(* Text is a sequence of one-character strings, so that len() and strip() *)
(* are computed as Python computes them.  A JSON value is a record        *)
(* [t, s, n, l]: t is the Python type after json.loads ("str", "int",     *)
(* "bool", "float", "null", "list"), s the text of a str, n the number of *)
(* an int / bool (True = 1) / float (n.0), l the elements of a list.      *)
EXTENDS Integers, Sequences, FiniteSets, TLC

\* ---------------------------------------------------------------- bounds
MaxTotalQ == 4
MaxAsked == 4

\* ------------------------------------------------------ program constants
MinTotalQ == 3
MinTextLen == 5
MinOptions == 2
NumOptions == 4

\* ------------------------------------------------------------------ text
IsSpace(c) == c \in {" ", "\n", "\t"}

RECURSIVE LStrip(_)
LStrip(s) == IF s = <<>> THEN <<>>
             ELSE IF IsSpace(Head(s)) THEN LStrip(Tail(s)) ELSE s

RECURSIVE RStrip(_)
RStrip(s) == IF s = <<>> THEN <<>>
             ELSE IF IsSpace(s[Len(s)]) THEN RStrip(SubSeq(s, 1, Len(s) - 1)) ELSE s

Strip(s) == RStrip(LStrip(s))

Digit(n) == CASE n = 0 -> "0" [] n = 1 -> "1" [] n = 2 -> "2" [] n = 3 -> "3"
              [] n = 4 -> "4" [] n = 5 -> "5" [] n = 6 -> "6" [] n = 7 -> "7"
              [] n = 8 -> "8" [] n = 9 -> "9"

RECURSIVE IntStr(_)
IntStr(n) == IF n < 0 THEN <<"-">> \o IntStr(0 - n)
             ELSE IF n < 10 THEN <<Digit(n)>>
             ELSE IntStr(n \div 10) \o <<Digit(n % 10)>>

DigitVal(c) == CHOOSE n \in 0..9 : Digit(n) = c

RECURSIVE StrInt(_)
StrInt(s) == IF Len(s) = 1 THEN DigitVal(s[1])
             ELSE 10 * StrInt(SubSeq(s, 1, Len(s) - 1)) + DigitVal(s[Len(s)])

\* ------------------------------------------------------------ JSON values
JStr(s) == [t |-> "str", s |-> s, n |-> 0, l |-> <<>>]
JInt(n) == [t |-> "int", s |-> <<>>, n |-> n, l |-> <<>>]
JBool(b) == [t |-> "bool", s |-> <<>>, n |-> IF b THEN 1 ELSE 0, l |-> <<>>]
JFloat(n) == [t |-> "float", s |-> <<>>, n |-> n, l |-> <<>>]
JNull == [t |-> "null", s |-> <<>>, n |-> 0, l |-> <<>>]
JList(l) == [t |-> "list", s |-> <<>>, n |-> 0, l |-> l]

\* str(x) of a scalar JSON value
PyStr(x) == CASE x.t = "str" -> x.s
              [] x.t = "int" -> IntStr(x.n)
              [] x.t = "bool" -> IF x.n = 1 THEN <<"T", "r", "u", "e">>
                                 ELSE <<"F", "a", "l", "s", "e">>
              [] x.t = "float" -> IntStr(x.n) \o <<".", "0">>
              [] x.t = "null" -> <<"N", "o", "n", "e">>
              [] OTHER -> <<"[", "]">>

\* isinstance(x, int): bool is a subclass of int
IsInt(x) == x.t \in {"int", "bool"}
IsStr(x) == x.t = "str"

RequiredKeys == <<"question", "options", "correct_index", "explanation">>

NoneOfTheAbove == <<"N", "o", "n", "e", " ", "o", "f", " ", "t", "h", "e", " ",
                    "a", "b", "o", "v", "e", " ">>

NoRecord == [question |-> <<>>, options |-> <<>>, correct_index |-> 0 - 1,
             explanation |-> <<>>]

Fail(e) == [ok |-> FALSE, err |-> e, rec |-> NoRecord]

NotRun == [ok |-> FALSE, err |-> "not run", rec |-> NoRecord]

\* --------------------------------------------------- validate_question
\* [str(x).strip() for x in obj["options"] if str(x).strip()]
RECURSIVE CleanOptions(_)
CleanOptions(l) ==
    IF l = <<>> THEN <<>>
    ELSE LET o == Strip(PyStr(Head(l)))
         IN  IF o # <<>> THEN <<o>> \o CleanOptions(Tail(l))
             ELSE CleanOptions(Tail(l))

\* while len(options) < 4: options.append(f"None of the above {len(options)}")
RECURSIVE PadOptions(_)
PadOptions(options) ==
    IF Len(options) < NumOptions
    THEN PadOptions(Append(options, NoneOfTheAbove \o IntStr(Len(options))))
    ELSE options

\* a single append where the source loops
NormalizeOptions_PadOnce(options) ==
    IF Len(options) > NumOptions THEN SubSeq(options, 1, NumOptions)
    ELSE IF Len(options) < NumOptions
    THEN Append(options, NoneOfTheAbove \o IntStr(Len(options)))
    ELSE options

\* padding only: more than four options are kept as they are
NormalizeOptions_NoTruncate(options) ==
    IF Len(options) < NumOptions THEN PadOptions(options) ELSE options

NormalizeOptions(options) ==
    IF Len(options) > NumOptions THEN SubSeq(options, 1, NumOptions)
    ELSE IF Len(options) < NumOptions THEN PadOptions(options)
    ELSE options

\* the index check of line 100; indices are 0-based as in the source
ValidIndex(ci, options) == IsInt(ci) /\ 0 <= ci.n /\ ci.n < Len(options)

\* obj is [keys, question, options, correct_index, explanation]; a field
\* whose key is absent from obj.keys is never read.
validate_question(obj) ==
    IF \E i \in 1..Len(RequiredKeys) : RequiredKeys[i] \notin obj.keys
    THEN Fail("Missing field")
    ELSE IF ~IsStr(obj.question) \/ Len(Strip(obj.question.s)) < MinTextLen
    THEN Fail("Invalid 'question'.")
    ELSE IF obj.options.t # "list" \/ Len(obj.options.l) < MinOptions
    THEN Fail("Invalid 'options' list.")
    ELSE LET cleaned == CleanOptions(obj.options.l)
         IN  IF Len(cleaned) < MinOptions
             THEN Fail("Not enough valid options.")
             ELSE LET options == NormalizeOptions(cleaned)
                      ci == obj.correct_index
                  IN  IF ~ValidIndex(ci, options)
                      THEN Fail("Invalid 'correct_index' position.")
                      ELSE IF ~IsStr(obj.explanation)
                              \/ Len(Strip(obj.explanation.s)) < MinTextLen
                      THEN Fail("Invalid 'explanation'.")
                      ELSE [ok |-> TRUE, err |-> "",
                            rec |-> [question |-> obj.question.s,
                                     options |-> options,
                                     correct_index |-> ci.n,
                                     explanation |-> obj.explanation.s]]

\* ------------------------------------------- extract_json_block, json.loads
\* A reply of the completion service is [api, fence, body, obj]:
\*   api    "fault" when the call raises, "ok" otherwise
\*   fence  "json" / "plain" for a reply holding a ``` fenced block
\*          (labelled or not), "none" for a reply without one, "empty" for
\*          a None or "" reply
\*   body   what the candidate span is: "object" (a well-formed {...}),
\*          "broken" (a {...} span json.loads rejects), "array" (text that
\*          does not start with a brace)
\*   obj    the dict json.loads gives for an "object" body
\* extract_json_block gives the span to parse, or raises: ValueError on an
\* empty reply; re.error on line 61 whenever the fence pattern found nothing,
\* because Python's re module has no (?1) recursion.
extract_json_block(reply) ==
    IF reply.fence = "empty" THEN [ok |-> FALSE, err |-> "Empty response from model."]
    ELSE IF reply.fence \in {"json", "plain"} /\ reply.body \in {"object", "broken"}
    THEN [ok |-> TRUE, err |-> ""]
    ELSE [ok |-> FALSE, err |-> "unknown extension ?1"]

json_loads(reply) == IF reply.body = "object" THEN [ok |-> TRUE, err |-> ""]
                     ELSE [ok |-> FALSE, err |-> "JSONDecodeError"]

\* generate_question: every exception becomes RuntimeError("Model error: ...")
generate_question(reply) ==
    IF reply.api = "fault" THEN Fail("Model error: fault")
    ELSE IF ~extract_json_block(reply).ok THEN Fail("Model error: extract")
    ELSE IF ~json_loads(reply).ok THEN Fail("Model error: json")
    ELSE validate_question(reply.obj)

\* ---------------------------------------------------------- sample texts
QWhen == <<"W", "h", "e", "n", "?">>
QWhere == <<" ", "W", "h", "e", "r", "e", "?", "\n">>
QShort == <<"Q">>
QBlank == <<" ", " ", " ", " ", " ", " ">>
EFacts == <<"F", "a", "c", "t", "s", ".">>
EShort == <<"E">>
OptA == JStr(<<"a">>)
OptB == JStr(<<"b">>)
OptC == JStr(<<" ", "c", " ">>)
OptD == JStr(<<"d">>)
OptE == JStr(<<"e">>)
OptBlank == JStr(<<" ">>)
OptEmpty == JStr(<<>>)
OptPad2 == JStr(NoneOfTheAbove \o <<"2">>)

AllKeys == {"question", "options", "correct_index", "explanation"}

Obj(keys, q, opts, ci, e) ==
    [keys |-> keys, question |-> q, options |-> opts, correct_index |-> ci,
     explanation |-> e]

Reply(api, fence, body, obj) == [api |-> api, fence |-> fence, body |-> body, obj |-> obj]

NoObj == Obj({}, JNull, JNull, JNull, JNull)

\* replies the completion service gives during a session
ReplyFault == Reply("fault", "empty", "array", NoObj)
ReplyBare == Reply("ok", "none", "object",
                   Obj(AllKeys, JStr(QWhen), JList(<<OptA, OptB, OptC, OptD>>), JInt(0), JStr(EFacts)))
ReplyShortExpl == Reply("ok", "json", "object",
                        Obj(AllKeys, JStr(QWhen), JList(<<OptA, OptB>>), JInt(0), JStr(EShort)))
ReplyFull == Reply("ok", "json", "object",
                   Obj(AllKeys, JStr(QWhen), JList(<<OptA, OptB, OptC, OptD>>), JInt(2), JStr(EFacts)))
ReplyPadded == Reply("ok", "plain", "object",
                     Obj(AllKeys, JStr(QWhere), JList(<<OptBlank, OptA, OptB>>), JInt(1), JStr(EFacts)))

SessionReplies == {ReplyFault, ReplyBare, ReplyFull, ReplyPadded}

\* ---------------------------------------------------------- session state
\* None is Python's None in st.session_state.selected and in the radio value
None == 0 - 1

VARIABLES quiz, current, score, answered, selected, asked_questions,
          total_q, screen, event, fired, error, replies,
          vreply, validated, generated, trail

\* st.session_state; start_time only feeds the elapsed-time caption and is
\* left out.  total_q is the slider, screen what the last script run
\* rendered (it decides which buttons can be clicked next).  event, fired,
\* error and replies describe the last script run: the widget that
\* triggered it ("SubmitNone" is Submit pressed with no radio option
\* picked), the handler body it executed ("warn" is the pick-an-option
\* warning of line 284), whether it ended in the RuntimeError of
\* generate_question, and the replies its completion calls received, in order.
\* trail belongs to the specification of one session played in order.
\* vreply, validated and generated belong to the specification of the pure
\* functions: a reply, validate_question's result on its object and
\* generate_question's result on it.
sess == [quiz |-> quiz, current |-> current, score |-> score,
         answered |-> answered, selected |-> selected,
         asked_questions |-> asked_questions]

vars == <<quiz, current, score, answered, selected, asked_questions,
          total_q, screen, event, fired, error, replies,
          vreply, validated, generated, trail>>

\* lines 158-171
InitSession == [quiz |-> <<>>, current |-> 0, score |-> 0, answered |-> FALSE,
                selected |-> None, asked_questions |-> <<>>]

TotalQs == MinTotalQ..MaxTotalQ

\* ------------------------------------------------------ ensure_quiz_built
Out(s, err, log, f, scr) == [s |-> s, err |-> err, log |-> log, fired |-> f, screen |-> scr]

\* generate_question on each reply of the session (computed once)
Generated == [r \in SessionReplies |-> generate_question(r)]

\* one iteration of the loop body for each remaining call; the set of all
\* outcomes over the replies the service may give.  asked_questions grows
\* without limit in the source: runs that would take it past MaxAsked are
\* left out of the model.
RECURSIVE BuildLoop(_, _)
BuildLoop(s, needed) ==
    IF needed = 0 THEN {[s |-> s, err |-> FALSE, log |-> <<>>]}
    ELSE UNION { LET q == Generated[r]
                 IN  IF ~q.ok
                     THEN {[s |-> s, err |-> TRUE, log |-> <<r>>]}
                     ELSE IF Len(s.asked_questions) >= MaxAsked THEN {}
                     ELSE { [o EXCEPT !.log = <<r>> \o @] :
                            o \in BuildLoop([s EXCEPT
                                     !.quiz = Append(@, q.rec),
                                     !.asked_questions = Append(@, q.rec.question)],
                                  needed - 1) }
               : r \in SessionReplies }

\* a transactional build: the records of an aborted build are dropped
ensure_quiz_built_Rollback(s, tq) ==
    LET needed == tq - Len(s.quiz)
    IN  IF needed <= 0 THEN {[s |-> s, err |-> FALSE, log |-> <<>>]}
        ELSE {IF b.err THEN [b EXCEPT !.s = s] ELSE b : b \in BuildLoop(s, needed)}

\* a build that also cuts a longer list down to tq
ensure_quiz_built_Trim(s, tq) ==
    LET needed == tq - Len(s.quiz)
    IN  IF needed < 0
        THEN {[s |-> [s EXCEPT !.quiz = SubSeq(@, 1, tq)], err |-> FALSE, log |-> <<>>]}
        ELSE IF needed = 0 THEN {[s |-> s, err |-> FALSE, log |-> <<>>]}
        ELSE BuildLoop(s, needed)

ensure_quiz_built(s, tq) ==
    LET needed == tq - Len(s.quiz)
    IN  IF needed <= 0 THEN {[s |-> s, err |-> FALSE, log |-> <<>>]}
        ELSE BuildLoop(s, needed)

\* ------------------------------------------------------------- reset_quiz
reset_quiz(s) == [s EXCEPT !.quiz = <<>>, !.current = 0, !.score = 0,
                           !.answered = FALSE, !.selected = None]

\* ------------------------------------------------- the question page
\* the radio labels f"{i+1}. {opt}" and the index parsed back from one
RadioLabel(i, opt) == IntStr(i + 1) \o <<".", " ">> \o opt

RECURSIVE BeforeDot(_)
BeforeDot(s) == IF s = <<>> \/ Head(s) = "." THEN <<>>
                ELSE <<Head(s)>> \o BeforeDot(Tail(s))

SelectedIdx(label) == StrInt(BeforeDot(label)) - 1

\* the guard without its "not answered" conjunct
SubmitGuard_NoAnsweredCheck(s, ch) == ch # None

\* line 286; ch is the radio's option index or None
SubmitGuard(s, ch) == ch # None /\ ~s.answered

\* the radio's 1-based number compared with the 0-based correct_index
SubmitHandler_OneBased(s, ch) ==
    LET q == s.quiz[s.current + 1]
        selected_idx == SelectedIdx(RadioLabel(ch, q.options[ch + 1]))
    IN  [s EXCEPT !.selected = selected_idx, !.answered = TRUE,
                  !.score = IF selected_idx + 1 = q.correct_index THEN @ + 1 ELSE @]

\* lines 287-298
SubmitHandler(s, ch) ==
    LET q == s.quiz[s.current + 1]
        selected_idx == SelectedIdx(RadioLabel(ch, q.options[ch + 1]))
    IN  [s EXCEPT !.selected = selected_idx, !.answered = TRUE,
                  !.score = IF selected_idx = q.correct_index THEN @ + 1 ELSE @]

\* line 300
SkipGuard(s) == ~s.answered

\* a skip that moves on to the next question by itself
SkipHandler_Advance(s) == [s EXCEPT !.selected = None, !.current = @ + 1]

\* lines 301-302
SkipHandler(s) == [s EXCEPT !.selected = None, !.answered = TRUE]

\* the handler without line 311
NextHandler_KeepSelected(s) == [s EXCEPT !.current = @ + 1, !.answered = FALSE]

\* lines 309-311
NextHandler(s) == [s EXCEPT !.current = @ + 1, !.answered = FALSE, !.selected = None]

\* ------------------------------------------------------ one script run
\* Add 1 Question building towards one more than the list holds
TopButtons_AddExactlyOne(s, tq, ev) ==
    IF ev = "NewQuiz" THEN {Out(reset_quiz(s), FALSE, <<>>, "reset", "")}
    ELSE IF ev = "AddOne"
    THEN {Out(b.s, b.err, b.log, "add", "") : b \in ensure_quiz_built(s, Len(s.quiz) + 1)}
    ELSE {Out(s, FALSE, <<>>, "none", "")}

\* lines 218-226: the two top buttons, then the top-level build
TopButtons(s, tq, ev) ==
    IF ev = "NewQuiz" THEN {Out(reset_quiz(s), FALSE, <<>>, "reset", "")}
    ELSE IF ev = "AddOne"
    THEN {Out(b.s, b.err, b.log, "add", "") : b \in ensure_quiz_built(s, tq)}
    ELSE {Out(s, FALSE, <<>>, "none", "")}

TopBuild(o, tq) ==
    IF o.err THEN {o}
    ELSE {Out(b.s, b.err, o.log \o b.log, o.fired, "") : b \in ensure_quiz_built(o.s, tq)}

\* lines 241-261
ResultsPage(o, tq, ev) ==
    IF ev = "PlayAgain"
    THEN {Out(b.s, b.err, o.log \o b.log, "reset", "results") :
             b \in ensure_quiz_built(reset_quiz(o.s), tq)}
    ELSE {[o EXCEPT !.screen = "results"]}

\* Submit with nothing picked handled as a skip
QuestionPage_NoneAsSkip(o, ev, ch) ==
    IF ev \in {"Submit", "SubmitNone"}
    THEN IF ch = None
         THEN [o EXCEPT !.s = SkipHandler(o.s), !.fired = "warn"]
         ELSE IF SubmitGuard(o.s, ch)
         THEN [o EXCEPT !.s = SubmitHandler(o.s, ch), !.fired = "submit"]
         ELSE o
    ELSE IF ev = "Skip" /\ SkipGuard(o.s)
    THEN [o EXCEPT !.s = SkipHandler(o.s), !.fired = "skip"]
    ELSE o

\* lines 264-304: the handlers of Submit and Skip
QuestionPage(o, ev, ch) ==
    IF ev \in {"Submit", "SubmitNone"}
    THEN IF ch = None THEN [o EXCEPT !.fired = "warn"]
         ELSE IF SubmitGuard(o.s, ch)
         THEN [o EXCEPT !.s = SubmitHandler(o.s, ch), !.fired = "submit"]
         ELSE o
    ELSE IF ev = "Skip" /\ SkipGuard(o.s)
    THEN [o EXCEPT !.s = SkipHandler(o.s), !.fired = "skip"]
    ELSE o

\* a run with no button pressed: a slider or radio change, the R key, or
\* the st.rerun() of line 312
PlainRun(o, tq) ==
    UNION { IF b.err THEN {[b EXCEPT !.screen = "error"]}
            ELSE IF b.s.current >= Len(b.s.quiz) THEN {[b EXCEPT !.screen = "results"]}
            ELSE {[b EXCEPT !.screen = IF b.s.answered THEN "revealed" ELSE "question"]}
          : b \in TopBuild(o, tq) }

ScriptRun(s, tq, ev, ch) ==
    UNION { IF b.err THEN {[b EXCEPT !.screen = "error"]}
            ELSE IF b.s.current >= Len(b.s.quiz) THEN ResultsPage(b, tq, ev)
            ELSE LET p == QuestionPage(b, ev, ch)
                 IN  IF ~p.s.answered THEN {[p EXCEPT !.screen = "question"]}
                     ELSE IF ev = "Next"
                     THEN PlainRun([p EXCEPT !.s = NextHandler(p.s), !.fired = "next"], tq)
                     ELSE {[p EXCEPT !.screen = "revealed"]}
          : b \in UNION {TopBuild(t, tq) : t \in TopButtons(s, tq, ev)} }

\* lines 243-245: ratio = score / total if total else 0, as a fraction
\* <<numerator, denominator>>
Ratio(sc, total) == IF total # 0 THEN <<sc, total>> ELSE <<0, 1>>

\* ------------------------------------------------ the states of a session
\* line 241 with a non-empty list; lines 264-307 otherwise
Complete == quiz # <<>> /\ current >= Len(quiz)
Answering == current < Len(quiz) /\ ~answered
Revealed == current < Len(quiz) /\ answered

\* ------------------------------------------------------------ the actions
\* lines 158-171, before the first script run.  The slider's default of 8
\* lies above MaxTotalQ: the first run is taken with the slider anywhere in
\* TotalQs, the state a first run whose first call fails leaves behind once
\* the slider is moved.
Init ==
    /\ quiz = <<>> /\ current = 0 /\ score = 0 /\ answered = FALSE
    /\ selected = None /\ asked_questions = <<>>
    /\ total_q \in TotalQs
    /\ screen = "start" /\ event = "start"
    /\ fired = "none" /\ error = FALSE /\ replies = <<>>
    /\ vreply = ReplyFault /\ validated = NotRun /\ generated = NotRun
    /\ trail = <<>>

ScriptStep(tq, ev, ch) ==
    \E o \in ScriptRun(sess, tq, ev, ch) :
        /\ Len(o.s.asked_questions) <= MaxAsked
        /\ quiz' = o.s.quiz
        /\ current' = o.s.current
        /\ score' = o.s.score
        /\ answered' = o.s.answered
        /\ selected' = o.s.selected
        /\ asked_questions' = o.s.asked_questions
        /\ total_q' = tq
        /\ screen' = o.screen
        /\ event' = ev
        /\ fired' = o.fired
        /\ error' = o.err
        /\ replies' = o.log
        /\ UNCHANGED <<vreply, validated, generated>>

Run(tq, ev, ch) == ScriptStep(tq, ev, ch) /\ UNCHANGED trail

\* the slider moved, a radio option picked, or the page rerun by hand
Rerun == \E tq \in TotalQs : Run(tq, "Rerun", None)

NewQuiz == screen # "start" /\ Run(total_q, "NewQuiz", None)

AddOne == screen # "start" /\ Run(total_q, "AddOne", None)

PlayAgain == screen = "results" /\ Run(total_q, "PlayAgain", None)

\* Submit with one of the radio's options picked, or with none
Submit == /\ screen \in {"question", "revealed"}
          /\ \/ \E ch \in 0..(NumOptions - 1) : Run(total_q, "Submit", ch)
             \/ Run(total_q, "SubmitNone", None)

Skip == screen \in {"question", "revealed"} /\ Run(total_q, "Skip", None)

NextQuestion == screen = "revealed" /\ Run(total_q, "Next", None)

Next == Rerun \/ NewQuiz \/ AddOne \/ PlayAgain \/ Submit \/ Skip \/ NextQuestion

Spec == Init /\ [][Next]_vars

\* ------------------------------------------- one session played in order
\* A fresh session whose first run builds all total_q questions, then each
\* question resolved by Submit or Skip and followed by Next Question.  trail
\* records, per resolved question, what the user did: "correct" when the
\* radio option picked is the question's correct_index, "wrong" when it is
\* another option, "skip" for Skip.
BuildAll ==
    /\ screen = "start"
    /\ ScriptStep(total_q, "Rerun", None)
    /\ ~error'
    /\ UNCHANGED trail

SubmitAnswer ==
    /\ screen = "question"
    /\ \E ch \in 0..(NumOptions - 1) :
          /\ ScriptStep(total_q, "Submit", ch)
          /\ trail' = Append(trail, IF ch = quiz[current + 1].correct_index
                                    THEN "correct" ELSE "wrong")

SkipAnswer ==
    /\ screen = "question"
    /\ ScriptStep(total_q, "Skip", None)
    /\ trail' = Append(trail, "skip")

Advance ==
    /\ screen = "revealed"
    /\ ScriptStep(total_q, "Next", None)
    /\ UNCHANGED trail

NextS == BuildAll \/ SubmitAnswer \/ SkipAnswer \/ Advance

SpecS == Init /\ [][NextS]_vars

\* ------------------------------------- the pure functions on their own
\* the objects a reply may carry
VQuestions == {JStr(QWhen), JStr(QWhere), JStr(QShort), JStr(QBlank), JInt(12345)}

VOptions == {JList(<<OptA, OptB>>), JList(<<OptA, OptB, OptC>>),
             JList(<<OptA, OptB, OptC, OptD>>), JList(<<OptA, OptB, OptC, OptD, OptE>>),
             JList(<<OptBlank, OptA, OptB>>), JList(<<OptA, OptEmpty, OptB>>),
             JList(<<OptA, OptB, OptBlank>>), JList(<<OptBlank, OptA, OptB, OptC, OptD, OptE>>),
             JList(<<OptA>>), JList(<<OptA, OptBlank>>), JList(<<OptA, OptA>>),
             JList(<<OptPad2, OptA>>), JList(<<JInt(1), JBool(TRUE), JNull>>),
             JStr(<<"a", "b">>)}

VIndexes == {JInt(i) : i \in (0 - 1)..5} \cup {JBool(TRUE), JStr(<<"1">>), JFloat(1), JNull}

VExplanations == {JStr(EFacts), JStr(EShort), JStr(<<>>), JNull}

VObjects ==
    {Obj(AllKeys, q, o, c, e) : q \in VQuestions, o \in VOptions, c \in VIndexes,
                                e \in VExplanations}
    \cup {Obj(AllKeys \ {k}, JStr(QWhen), JList(<<OptA, OptB>>), JInt(0), JStr(EFacts)) :
             k \in AllKeys}

\* every object in a ```json fence; a few in other wrappings
VReplies ==
    {Reply("ok", "json", "object", obj) : obj \in VObjects}
    \cup {Reply("ok", f, b, obj) :
             f \in {"plain", "none"}, b \in {"object", "broken", "array"},
             obj \in {ReplyFull.obj, ReplyPadded.obj, ReplyShortExpl.obj}}
    \cup {ReplyFault, Reply("ok", "empty", "array", NoObj),
          Reply("ok", "json", "broken", NoObj), Reply("ok", "json", "array", NoObj)}

InitV ==
    /\ quiz = <<>> /\ current = 0 /\ score = 0 /\ answered = FALSE
    /\ selected = None /\ asked_questions = <<>>
    /\ total_q = MinTotalQ
    /\ screen = "start" /\ event = "start"
    /\ fired = "none" /\ error = FALSE /\ replies = <<>>
    /\ vreply \in VReplies /\ validated = NotRun /\ generated = NotRun
    /\ trail = <<>>

sessionVars == <<quiz, current, score, answered, selected, asked_questions,
                 total_q, screen, event, fired, error, replies, trail>>

\* validate_question applied to the object json.loads gives for the reply
Validate ==
    /\ validated = NotRun
    /\ vreply.api = "ok" /\ vreply.body = "object"
    /\ validated' = validate_question(vreply.obj)
    /\ UNCHANGED <<vreply, generated>>
    /\ UNCHANGED sessionVars

\* generate_question receiving the reply
Generate ==
    /\ generated = NotRun
    /\ generated' = generate_question(vreply)
    /\ UNCHANGED <<vreply, validated>>
    /\ UNCHANGED sessionVars

NextV == Validate \/ Generate

SpecV == InitV /\ [][NextV]_vars

\* ------------------------------------------------------------ properties
\* C1: in every reachable state of the session, every record of the question
\* list has exactly 4 options and a correct_index in 0..3.
C1_RecordsWellFormed ==
    \A i \in 1..Len(quiz) :
        /\ Len(quiz[i].options) = NumOptions
        /\ quiz[i].correct_index \in 0..(NumOptions - 1)

\* a built list holding a padded record and an unpadded one
C1_Witness ==
    /\ Len(quiz) >= MinTotalQ
    /\ \E i \in 1..Len(quiz) : quiz[i].options[NumOptions] = NoneOfTheAbove \o <<"3">>
    /\ \E i \in 1..Len(quiz) : quiz[i].options[NumOptions] = <<"d">>

\* C2: whenever validate_question accepts an object with fewer than 4
\* non-blank options, the returned correct_index is the index of one of those
\* options, never of an appended "None of the above" placeholder.
C2_PaddingNeverCorrect ==
    LET kept == Len(CleanOptions(vreply.obj.options.l))
    IN  (validated.ok /\ kept < NumOptions) => validated.rec.correct_index < kept

\* C3: for an object with all required fields, a valid question and
\* explanation, 2 to 4 non-blank options and an integer correct_index in range
\* of the options list as given, validate_question returns a record of 4
\* options whose option at correct_index is the (trimmed) text of the given
\* option at the given correct_index.
C3_CorrectTextPreserved ==
    LET obj == vreply.obj
        given == obj.options.l
        ci == obj.correct_index
    IN  ( /\ validated # NotRun
          /\ obj.keys = AllKeys
          /\ IsStr(obj.question) /\ Len(Strip(obj.question.s)) >= MinTextLen
          /\ IsStr(obj.explanation) /\ Len(Strip(obj.explanation.s)) >= MinTextLen
          /\ obj.options.t = "list"
          /\ Len(CleanOptions(given)) \in MinOptions..NumOptions
          /\ ci.t = "int" /\ ci.n \in 0..(Len(given) - 1) )
        => /\ validated.ok
           /\ Len(validated.rec.options) = NumOptions
           /\ validated.rec.options[validated.rec.correct_index + 1]
                 = Strip(PyStr(given[ci.n + 1]))

\* C4 as claimed: once Complete, the session stays Complete in every step
\* that is not a reset, whatever the step is.
C4_CompleteUntilReset ==
    [][(Complete /\ fired' # "reset") => Complete']_vars

\* C4 as amended: once Complete, the session stays Complete, with the same
\* list and index, in every step that is not a reset and whose configured
\* number of questions does not exceed the length of the list.
C4_CompleteUntilResetOrRaise ==
    [][(Complete /\ fired' # "reset" /\ total_q' <= Len(quiz))
          => (Complete' /\ quiz' = quiz /\ current' = current)]_vars

\* Add 1 Question pressed in Complete
C4_Witness ==
    /\ Complete
    /\ event = "AddOne" /\ fired = "add" /\ ~error
    /\ total_q <= Len(quiz)

\* C5: an Add 1 Question run that ends without an error leaves the list
\* exactly one record longer.
C5_AddOneAppendsOne ==
    [][(event' = "AddOne" /\ ~error') => Len(quiz') = Len(quiz) + 1]_vars

\* C6: a run whose build aborts at its k-th call leaves the list as it was
\* before the build (empty when the run reset first) followed by the records
\* of the k-1 accepted replies, in order, and leaves current, score, answered
\* and selected as they were before the build.
C6_PartialProgressKept ==
    [][error' =>
         LET reset == fired' = "reset"
             before == IF reset THEN <<>> ELSE quiz
             k == Len(replies')
         IN  /\ k >= 1
             /\ ~generate_question(replies'[k]).ok
             /\ Len(quiz') = Len(before) + k - 1
             /\ \A i \in 1..Len(before) : quiz'[i] = before[i]
             /\ \A i \in 1..(k - 1) :
                   /\ generate_question(replies'[i]).ok
                   /\ quiz'[Len(before) + i] = generate_question(replies'[i]).rec
             /\ current' = (IF reset THEN 0 ELSE current)
             /\ score' = (IF reset THEN 0 ELSE score)
             /\ answered' = (IF reset THEN FALSE ELSE answered)
             /\ selected' = (IF reset THEN None ELSE selected)]_vars

\* a build of an existing list that aborted at its second call or later
C6_Witness ==
    /\ error /\ fired # "reset"
    /\ Len(replies) >= 2
    /\ Len(quiz) > Len(replies) - 1

\* C7: in Answering, a Submit with an option picked or a Skip sets answered
\* and shows the revealed page; the score grows by 1 exactly when the run is
\* a Submit whose selected index is the question's correct_index, and is
\* unchanged otherwise.
C7_SubmitOrSkipReveals ==
    [][(Answering /\ event' \in {"Submit", "Skip"})
          => /\ answered' /\ screen' = "revealed" /\ Revealed'
             /\ current' = current /\ quiz' = quiz
             /\ (event' = "Skip" => selected' = None)
             /\ (event' = "Submit" => selected' \in 0..(NumOptions - 1))
             /\ score' = (IF event' = "Submit"
                            /\ selected' = quiz[current + 1].correct_index
                          THEN score + 1 ELSE score)]_vars

\* a correct Submit has been scored
C7_Witness ==
    /\ event = "Submit" /\ fired = "submit" /\ Revealed
    /\ selected = quiz[current + 1].correct_index
    /\ score >= 1

\* C8: while answered is true, a Submit (with any option or none) or a Skip
\* leaves the question list, current, score, answered, selected and the
\* asked prompts unchanged.
C8_ResubmitIsNoOp ==
    [][(answered /\ event' \in {"Submit", "SubmitNone", "Skip"}) => sess' = sess]_vars

\* Submit pressed again, with an option picked, on an answered question
C8_Witness ==
    /\ answered /\ event = "Submit" /\ fired = "none" /\ selected # None

\* C9: the Next button is offered only when answered is true; pressing it
\* adds 1 to current, clears answered and selected, leaves score and the
\* list unchanged, and shows the next question when one remains and the
\* results when current equals the length of the list.
C9_Advance ==
    /\ [](screen = "revealed" => Revealed)
    /\ [][event' = "Next"
            => /\ Revealed /\ fired' = "next"
               /\ current' = current + 1
               /\ ~answered' /\ selected' = None
               /\ score' = score /\ quiz' = quiz
               /\ IF current' < Len(quiz')
                  THEN Answering' /\ screen' = "question"
                  ELSE Complete' /\ current' = Len(quiz') /\ screen' = "results"]_vars

\* the last question advanced into the results
C9_Witness ==
    /\ event = "Next" /\ fired = "next" /\ Complete /\ screen = "results"

\* C10: reset_quiz gives every field of the session state its initial value,
\* the asked prompts included.
C10_ResetClearsAll ==
    [][fired' = "reset" => reset_quiz(sess) = InitSession]_vars

\* C11: an object that validate_question would accept with a long enough
\* explanation is also accepted when its explanation is a string that is
\* empty or shorter than the minimum after trimming, and the record then
\* carries a substituted explanation of at least the minimum length.
C11_ExplanationFallback ==
    LET obj == vreply.obj
    IN  ( /\ validated # NotRun
          /\ obj.keys = AllKeys
          /\ IsStr(obj.explanation)
          /\ Len(Strip(obj.explanation.s)) < MinTextLen
          /\ validate_question([obj EXCEPT !.explanation = JStr(EFacts)]).ok )
        => /\ validated.ok
           /\ Len(Strip(validated.rec.explanation)) >= MinTextLen

\* C12: a reply without a fenced block whose text is a JSON object that
\* validate_question accepts makes generate_question return that validated
\* record.
C12_UnfencedJsonAccepted ==
    ( /\ generated # NotRun
      /\ vreply.api = "ok" /\ vreply.fence = "none" /\ vreply.body = "object"
      /\ validate_question(vreply.obj).ok )
    => /\ generated.ok
       /\ generated.rec = validate_question(vreply.obj).rec

\* The case of C13: a validated object with all keys, a valid question and
\* explanation, more than four non-blank options and a non-negative integer
\* correct_index.
C13_Case ==
    LET obj == vreply.obj
    IN  /\ validated # NotRun
        /\ obj.keys = AllKeys
        /\ IsStr(obj.question) /\ Len(Strip(obj.question.s)) >= MinTextLen
        /\ IsStr(obj.explanation) /\ Len(Strip(obj.explanation.s)) >= MinTextLen
        /\ obj.options.t = "list"
        /\ Len(CleanOptions(obj.options.l)) > NumOptions
        /\ IsInt(obj.correct_index) /\ obj.correct_index.n >= 0

\* C13 as stated: with more than four non-blank options the first four are
\* kept in order; a correct_index below 4 keeps its index and text, and a
\* correct_index of 4 or more still yields a record with an index in range.
C13_TruncateAlwaysAccepts ==
    LET cleaned == CleanOptions(vreply.obj.options.l)
        ci      == vreply.obj.correct_index.n
    IN  C13_Case =>
          /\ validated.ok
          /\ validated.rec.options = SubSeq(cleaned, 1, NumOptions)
          /\ validated.rec.correct_index \in 0..(NumOptions - 1)
          /\ ci < NumOptions =>
                /\ validated.rec.correct_index = ci
                /\ validated.rec.options[ci + 1] = cleaned[ci + 1]

\* C13 amended: with more than four non-blank options the first four are
\* kept in order and a correct_index below 4 keeps its index and the text of
\* the non-blank option at that index; a correct_index of 4 or more is
\* rejected by the index check, which runs after the truncation.
C13_TruncateThenIndexCheck ==
    LET cleaned == CleanOptions(vreply.obj.options.l)
        ci      == vreply.obj.correct_index.n
    IN  C13_Case =>
          IF ci < NumOptions
          THEN /\ validated.ok
               /\ validated.rec.options = SubSeq(cleaned, 1, NumOptions)
               /\ validated.rec.correct_index = ci
               /\ validated.rec.options[ci + 1] = cleaned[ci + 1]
          ELSE /\ ~validated.ok
               /\ validated.err = "Invalid 'correct_index' position."

C13_Witness ==
    /\ C13_Case
    /\ vreply.obj.correct_index.n >= NumOptions
    /\ validated.err = "Invalid 'correct_index' position."

\* C14: a reply with a fenced block holding an object with all keys, a
\* non-blank question and explanation (such as "Q" and "E"), exactly two
\* options, both non-blank, and a correct_index of 0 or 1 is accepted by
\* generate_question; the record has four options, the first two are the
\* given ones, and the index is unchanged.
C14_FencedTwoOptionsAccepted ==
    LET obj     == vreply.obj
        cleaned == CleanOptions(obj.options.l)
    IN  ( /\ generated # NotRun
          /\ vreply.api = "ok" /\ vreply.fence \in {"json", "plain"}
          /\ vreply.body = "object"
          /\ obj.keys = AllKeys
          /\ IsStr(obj.question) /\ Strip(obj.question.s) # <<>>
          /\ IsStr(obj.explanation) /\ Strip(obj.explanation.s) # <<>>
          /\ obj.options.t = "list"
          /\ Len(obj.options.l) = MinOptions /\ Len(cleaned) = MinOptions
          /\ obj.correct_index.t = "int" /\ obj.correct_index.n \in 0..(MinOptions - 1) )
        => /\ generated.ok
           /\ Len(generated.rec.options) = NumOptions
           /\ SubSeq(generated.rec.options, 1, MinOptions) = cleaned
           /\ generated.rec.correct_index = obj.correct_index.n

\* C15: a run started by Submit with no option picked leaves the question
\* list, current, score, answered and selected (and the asked prompts)
\* unchanged, in whatever state it is pressed.
C15_SubmitNoneIsNoOp ==
    [][event' = "SubmitNone" =>
         /\ quiz' = quiz /\ current' = current /\ score' = score
         /\ answered' = answered /\ selected' = selected
         /\ asked_questions' = asked_questions]_vars

C15_Witness ==
    /\ event = "SubmitNone" /\ fired = "warn"
    /\ Answering /\ current >= 1 /\ screen = "question"

\* C16: in a run that does not reset the session, current either stays or
\* grows by exactly one, it grows only when Next Question fired, and score
\* does not decrease (it grows by at most one).
C16_MonotoneProgress ==
    [][fired' # "reset" =>
         /\ current' \in {current, current + 1}
         /\ current' # current => fired' = "next"
         /\ score' \in {score, score + 1}]_vars

C16_Witness ==
    /\ fired = "next" /\ current >= 2 /\ score >= 1 /\ score < current

\* C17: in a session played in order from a fresh build of N questions the
\* score always equals the number of Submits that picked the correct
\* option, and once every question has been resolved (by Submit or Skip)
\* and advanced past, the session is Complete, shows the results, and the
\* list still has N questions.
C17_FullSession ==
    /\ score = Cardinality({i \in 1..Len(trail) : trail[i] = "correct"})
    /\ (Len(trail) = total_q /\ event = "Next") =>
          /\ Complete /\ screen = "results"
          /\ Len(quiz) = total_q /\ current = total_q

\* three questions: correct, skipped, incorrect; score 1, length 3
C17_Witness ==
    /\ total_q = 3 /\ event = "Next"
    /\ trail = <<"correct", "skip", "wrong">>
    /\ Complete /\ score = 1 /\ Len(quiz) = 3

\* C18: the four options of every record validate_question returns are
\* pairwise distinct, padded or not.
C18_OptionsDistinct ==
    validated.ok =>
        \A i, j \in 1..Len(validated.rec.options) :
            i # j => validated.rec.options[i] # validated.rec.options[j]

\* C19: in every reachable state 0 <= current <= len(quiz); the question
\* page (where quiz[current] is read) is shown only with current < len(quiz);
\* score <= current + (1 if answered else 0), so score <= len(quiz); and the
\* ratio of the results page lies in [0, 1], being 0 for an empty list.
C19_Bounds ==
    LET ratio == Ratio(score, Len(quiz))
    IN  /\ 0 <= current /\ current <= Len(quiz)
        /\ screen \in {"question", "revealed"} => current < Len(quiz)
        /\ 0 <= score /\ score <= current + (IF answered THEN 1 ELSE 0)
        /\ score <= Len(quiz)
        /\ 0 <= ratio[1] /\ ratio[1] <= ratio[2] /\ ratio[2] > 0
        /\ quiz = <<>> => ratio[1] = 0

\* every question answered correctly: the ratio of the results page is 1
C19_Witness ==
    /\ Complete /\ screen = "results"
    /\ score = Len(quiz) /\ score = current
    /\ Ratio(score, Len(quiz)) = <<Len(quiz), Len(quiz)>>

====
